---------------------------- MODULE Spec2Model ----------------------------
(***************************************************************************)
(* A model of idea-print, the receipt printer agent: the HMAC signature    *)
(* verifier (auth.py), the SQLite idempotency store (dedupe.py), the       *)
(* transports (transport/*.py) and the /print pipeline (server.py).        *)
(*                                                                         *)
(* Nine specifications share the module:                                   *)
(*   Spec       the running server: NumReqs /print requests in flight on   *)
(*              one event loop, one print lock, one store, one transport   *)
(*              configuration;                                             *)
(*   SpecStore  the DedupeStore alone, called by NumCallers concurrent     *)
(*              callers of check_and_mark, cleanup_expired and             *)
(*              is_duplicate, each call on a connection of its own;        *)
(*   SpecAuth   generate_signature and verify_signature called as a        *)
(*              library, on drawn arguments;                               *)
(*   SpecWrap   Renderer.wrap_text called on drawn texts and widths;       *)
(*   SpecReceipt  build_receipt called on drawn ideas and profiles         *)
(*              (renderer.py, template.py);                                *)
(*   SpecMark   the DedupeStore with callers of mark_processed as well,    *)
(*              on one id;                                                 *)
(*   SpecServe  the server going on: answered requests are followed by     *)
(*              new ones;                                                  *)
(*   SpecLive   the requests of Spec under the event loop's fairness;      *)
(*   SpecExpiry the server going on while the clock advances.              *)
(*                                                                         *)
(* Strings are sequences of one-character strings, so that parsing and     *)
(* concatenation are computed and not assumed.  Times are small naturals;  *)
(* the window and the TTL are scaled down with them.                       *)
(*                                                                         *)
(* Under Spec a print attempt is split at its transport calls (open,       *)
(* write, close), and other requests may run between them.  The handler    *)
(* makes these calls without awaiting, so the event loop runs them in one  *)
(* piece: the model allows every schedule the server has, and more.  The   *)
(* clock does not advance under Spec (the server never deletes a record,   *)
(* and a request reads the clock only to check its timestamp and to stamp  *)
(* its record); it advances under SpecStore and SpecMark, where expiry is  *)
(* decided, and under SpecExpiry.                                          *)
(***************************************************************************)
EXTENDS Integers, Sequences, FiniteSets, TLC

\* ------------------------------------------------------------- bounds
\* /print requests in flight under Spec.
NumReqs == 2
\* Concurrent callers of the store under SpecStore.
NumCallers == 2
\* The clock runs over 0..MaxTime (seconds, scaled).
MaxTime == 2
\* DedupeStore.ttl_seconds, scaled to the clock (86400 in the code).
TtlSeconds == 1
\* Config.timestamp_window_seconds, scaled to the clock (300 in the code).
WindowSeconds == 1
\* Length in bytes of a receipt document handed to Transport.write.
DocLen == 2
\* Texts given to wrap_text have at most TextLen characters.
TextLen == 5
\* wrap_text is called under chars_per_line in 1..MaxWidth.
MaxWidth == 3

Reqs == 1..NumReqs
Callers == 1..NumCallers
\* Request ids that requests carry; NoId is an absent (None) or empty id.
Ids == {"a", "b"}
NoId == ""

\* ------------------------------------------------------------ auth.py
Digits == <<"0", "1", "2", "3", "4", "5", "6", "7", "8", "9">>

IsDigit(c) == \E i \in 1..Len(Digits) : Digits[i] = c

DigitVal(c) == (CHOOSE i \in 1..Len(Digits) : Digits[i] = c) - 1

\* Characters are named by strings: a printable ASCII character by itself,
\* the others by name.  WhiteSpace holds the characters str.isspace() is
\* true of (the separators FS, GS, RS, US are among them); NonAscii the
\* characters above U+007F; NotInCodePage those of them cp437 cannot encode.
WhiteSpace == {" ", "\n", "\t", "GS"}
NonAscii == {"U+00E9", "U+2603"}
NotInCodePage == {"U+2603"}

IsSpace(c) == c \in WhiteSpace

\* The whitespace int() skips around the digits of an ASCII str: space,
\* \t, \n, \v, \f, \r.  The separators FS, GS, RS, US are not among them.
\* (In a str with non-ASCII characters int() also skips the non-ASCII
\* whitespace; the alphabet here has none.)
IntSpace == {" ", "\n", "\t"}

\* The characters of the set space removed from the front, from the end.
RECURSIVE LStrip(_, _)
LStrip(s, space) ==
    IF s # <<>> /\ Head(s) \in space THEN LStrip(Tail(s), space) ELSE s

RECURSIVE RStrip(_, _)
RStrip(s, space) ==
    IF s # <<>> /\ s[Len(s)] \in space
    THEN RStrip(SubSeq(s, 1, Len(s) - 1), space)
    ELSE s

\* str.strip(): leading and trailing whitespace removed.
Strip(s) == RStrip(LStrip(s, WhiteSpace), WhiteSpace)

\* The str int() parses, rid of the whitespace it skips.
IntStrip(s) == RStrip(LStrip(s, IntSpace), IntSpace)

\* The sign int() accepts in front of the digits.
HasSign(s) == s # <<>> /\ Head(s) \in {"+", "-"}

Unsigned(s) == IF HasSign(s) THEN Tail(s) ELSE s

\* int() lets single underscores separate digits: none in front, none
\* at the end, no two in a row.
WellGrouped(d) ==
    /\ d # <<>>
    /\ \A i \in 1..Len(d) :
         \/ IsDigit(d[i])
         \/ d[i] = "_" /\ 1 < i /\ i < Len(d) /\ IsDigit(d[i - 1]) /\ IsDigit(d[i + 1])

\* sys.int_max_str_digits: int(str) and str(int) raise ValueError beyond
\* this many decimal digits.
IntMaxStrDigits == 4300

\* The digits of d, the underscores not counted.
DigitCount(d) == Len(SelectSeq(d, IsDigit))

\* int(timestamp) raises ValueError unless, after skipping whitespace and
\* one optional sign, a well-grouped run of decimal digits remains, of no
\* more than IntMaxStrDigits digits.
IntParses(s) ==
    LET d == Unsigned(IntStrip(s))
    IN  WellGrouped(d) /\ DigitCount(d) <= IntMaxStrDigits

RECURSIVE DecimalValue(_)
DecimalValue(d) ==
    IF d = <<>> THEN 0
    ELSE IF d[Len(d)] = "_" THEN DecimalValue(SubSeq(d, 1, Len(d) - 1))
    ELSE 10 * DecimalValue(SubSeq(d, 1, Len(d) - 1)) + DigitVal(d[Len(d)])

\* int(timestamp), for a string that parses.
IntValue(s) ==
    LET t == IntStrip(s)
        v == DecimalValue(Unsigned(t))
    IN  IF HasSign(t) /\ Head(t) = "-" THEN 0 - v ELSE v

Abs(x) == IF x < 0 THEN 0 - x ELSE x

\* The number of decimal digits of n >= 0.
RECURSIVE NumDigits(_)
NumDigits(n) == IF n < 10 THEN 1 ELSE 1 + NumDigits(n \div 10)

\* Formatting the int n in an f-string raises ValueError when n has more
\* than IntMaxStrDigits digits.
FormatRaises(n) == NumDigits(Abs(n)) > IntMaxStrDigits

\* A str that is not a hex digest, as X-Signature may carry one.
Text(chars) == [hex |-> FALSE, key |-> <<>>, msg |-> <<>>, text |-> chars]

EmptyStr == Text(<<>>)

\* The block of SHA-256, in bytes.
HmacBlockSize == 64

\* The length of secret.encode(): UTF-8 takes one byte for an ASCII
\* character, two for U+00E9, three for U+2603.
Utf8Len(s) ==
    Len(s) + Len(SelectSeq(s, LAMBDA c : c = "U+00E9"))
           + 2 * Len(SelectSeq(s, LAMBDA c : c = "U+2603"))

\* The SHA-256 digest of a key, as an ideal hash: it is determined by, and
\* determines, the key, and is no key a secret spells out.
Sha256(key) == <<"sha256">> \o key

\* A key shorter than a block is padded with zero bytes to the block's length.
RECURSIVE ZeroPadded(_)
ZeroPadded(key) ==
    IF key # <<>> /\ key[Len(key)] = "NUL"
    THEN ZeroPadded(SubSeq(key, 1, Len(key) - 1))
    ELSE key

\* The key HMAC works with: a secret longer than a block is hashed first,
\* any other is padded with zero bytes, so that secrets of at most a block
\* that differ in trailing NUL bytes are one key.
HmacKey(secret) ==
    IF Utf8Len(secret) > HmacBlockSize THEN Sha256(secret) ELSE ZeroPadded(secret)

\* hmac.new(secret.encode(), message, sha256).hexdigest(), as an ideal MAC:
\* the digest is determined by, and determines, the padded key and the
\* message.
HmacHex(secret, message) ==
    [hex |-> TRUE, key |-> HmacKey(secret), msg |-> message, text |-> <<>>]

\* Mutant: only the timestamp is signed.
TimestampOnly(timestamp, body) == timestamp

\* The message that is signed: timestamp.encode() + body.
SignedMessage(timestamp, body) == timestamp \o body

\* AuthResult(success, error); raised names the exception when the call
\* raised and returned no AuthResult.
AuthOk == [success |-> TRUE, error |-> "None", raised |-> "none"]

AuthFail(reason) == [success |-> FALSE, error |-> reason, raised |-> "none"]

AuthRaise(e) == [success |-> FALSE, error |-> "None", raised |-> e]

\* Mutant: a timestamp at the edge of the window is rejected.
OutsideWindowInclusive(age, window) == age >= window

\* The comparison of the timestamp's age with the window.
OutsideWindow(age, window) == age > window

\* A str of ASCII characters only (a hex digest is one).
IsAscii(str) == str.hex \/ \A i \in 1..Len(str.text) : str.text[i] \notin NonAscii

\* hmac.compare_digest(a, b) raises TypeError for a str argument that holds
\* a non-ASCII character.
CompareDigestRaises(signature, expected) == ~IsAscii(signature) \/ ~IsAscii(expected)

\* hmac.compare_digest(signature, expected).
CompareDigest(signature, expected) == signature = expected

\* verify_signature(body, signature, timestamp, secret, window_seconds), at
\* clock reading t.  The "too old" reason stands for the formatted message
\* "Timestamp too old: <age>s > <window>s"; formatting an age of too many
\* digits raises ValueError out of the call.
VerifySignature(body, signature, timestamp, secret, window, t) ==
    IF secret = <<>> THEN AuthFail("HMAC secret not configured")
    ELSE IF signature = EmptyStr THEN AuthFail("Missing signature")
    ELSE IF timestamp = <<>> THEN AuthFail("Missing timestamp")
    ELSE IF ~IntParses(timestamp) THEN AuthFail("Invalid timestamp format")
    ELSE IF OutsideWindow(Abs(t - IntValue(timestamp)), window)
         THEN IF FormatRaises(Abs(t - IntValue(timestamp)))
              THEN AuthRaise("ValueError")
              ELSE AuthFail("Timestamp too old")
    ELSE LET expected == HmacHex(secret, SignedMessage(timestamp, body))
         IN  IF CompareDigestRaises(signature, expected) THEN AuthRaise("TypeError")
             ELSE IF ~CompareDigest(signature, expected)
                  THEN AuthFail("Invalid signature")
             ELSE AuthOk

RECURSIVE IntToStr(_)
\* str(timestamp).
IntToStr(n) ==
    IF n < 0 THEN <<"-">> \o IntToStr(0 - n)
    ELSE IF n < 10 THEN <<Digits[n + 1]>>
    ELSE IntToStr(n \div 10) \o <<Digits[(n % 10) + 1]>>

\* generate_signature(body, timestamp, secret).
GenerateSignature(body, timestamp, secret) ==
    HmacHex(secret, SignedMessage(IntToStr(timestamp), body))

\* ---------------------------------------------------------- dedupe.py
\* The table processed_requests is a function from request_id to
\* processed_at: request_id is the PRIMARY KEY, so a key has one row.
NoRows == <<>>

\* Mutant: a table without the PRIMARY KEY constraint.
NoPrimaryKey(rows, id) == FALSE

\* The PRIMARY KEY constraint: an INSERT of an id that has a row raises
\* sqlite3.IntegrityError.
PrimaryKeyConflict(rows, id) == id \in DOMAIN rows

\* Mutant: check_and_mark's statement is INSERT OR REPLACE.
CheckAndMarkReplaces(rows, id, at) == (id :> at) @@ rows

\* check_and_mark's INSERT, on the rows the connection sees: the table
\* after the statement.  A conflicting INSERT changes nothing.
CheckAndMarkRows(rows, id, at) ==
    IF PrimaryKeyConflict(rows, id) THEN rows ELSE (id :> at) @@ rows

\* check_and_mark's return value: True for a new id, False on IntegrityError.
CheckAndMarkResult(rows, id) == ~PrimaryKeyConflict(rows, id)

\* mark_processed's INSERT OR REPLACE: the table after the statement.
MarkProcessedRows(rows, id, at) == (id :> at) @@ rows

\* is_duplicate's return value: its SELECT finds a row of the id, whatever
\* its age.
IsDuplicateResult(rows, id) == id \in DOMAIN rows

\* cleanup_expired's cutoff = int(time.time()) - self.ttl_seconds.
Cutoff(t, ttl) == t - ttl

\* Mutant: DELETE ... WHERE processed_at <= cutoff.
ExpiredIdsInclusive(rows, cutoff) == {id \in DOMAIN rows : rows[id] <= cutoff}

\* The rows DELETE ... WHERE processed_at < cutoff selects.
ExpiredIds(rows, cutoff) == {id \in DOMAIN rows : rows[id] < cutoff}

\* The table after cleanup_expired's DELETE.
CleanupRows(rows, cutoff) ==
    [id \in DOMAIN rows \ ExpiredIds(rows, cutoff) |-> rows[id]]

\* cleanup_expired's return value, cursor.rowcount.
CleanupCount(rows, cutoff) == Cardinality(ExpiredIds(rows, cutoff))

\* ------------------------------------------- template.py, the id line
\* str.encode(encoding) raises UnicodeEncodeError for a character outside
\* the code page.
EncodeRaises(s) == \E i \in 1..Len(s) : s[i] \in NotInCodePage

\* The label of the id line.
IdLabel == <<"I", "D", ":", " ">>

\* build_receipt: if idea_id, the line f"ID: {idea_id}" is added.
HasIdLine(idea_id) == idea_id # <<>>

\* ----------------------------------------------------------- server.py
VARIABLES
    cfg,       \* get_config(): hmac_secret, dedupe_enabled, printer_transport,
               \* printer_usb_vendor, printer_usb_product
    now,       \* int(time.time())
    db,        \* committed rows of processed_requests
    locked,    \* _print_lock._locked
    waiters,   \* _print_lock._waiters, in arrival order
    woken,     \* waiters whose future release() has completed
    pc,        \* where each request is in verify_auth / print_receipt
    rid,       \* body.request_id of each request (NoId: None or empty)
    auth,      \* verify_signature's answer: "ok", error, "raised", "skipped", "none"
    cam,       \* check_and_mark's answer for the request: "new", "dup",
               \* "raised", or "none" when it was not called
    built,     \* build_receipt has run for the request
    tookLock,  \* the request has acquired _print_lock
    tr,        \* the request's transport object: "none", "closed", "open", "found"
    exc,       \* the call that raised last inside the try block, or "none"
    opens,     \* transport.open() calls made for the request
    writes,    \* transport.write() calls made for the request
    wrote,     \* what transport.write returned (-1: it has not returned)
    outcome    \* the response of the request

VARIABLES
    spc,       \* where each store caller is in its DedupeStore call
    sop,       \* the call: "check_and_mark", "mark_processed", "cleanup_expired"
               \* or "is_duplicate"
    sid,       \* the call's request_id argument
    sat,       \* the call's reading of time.time() (now, or the cutoff's base)
    txn,       \* the rows as the caller's open transaction has them
    sret,      \* the call's return value
    wlock,     \* the caller whose connection holds SQLite's write lock, or 0
    raced,     \* the call began while another call on the same id was under way
    grants     \* per id, the processed_at of the calls check_and_mark answered True

VARIABLES
    fpc,       \* where the caller of a library function is: "none" under Spec
    fin,       \* the arguments drawn for the function
    fout       \* what the function produced

pvars == <<cfg, now, db, locked, waiters, woken, pc, rid, auth, cam, built,
           tookLock, tr, exc, opens, writes, wrote, outcome>>
svars == <<spc, sop, sid, sat, txn, sret, wlock, raced, grants>>
fvars == <<fpc, fin, fout>>
vars == <<pvars, svars, fvars>>

\* PRINTER_TRANSPORT values: the three kinds get_transport knows, and one
\* it does not.
TransportKinds == {"file", "serial", "usb", "parallel"}

\* PRINTER_USB_VENDOR and PRINTER_USB_PRODUCT as the usb configurations
\* have them: both unset, a hexadecimal and a decimal id, a vendor that is
\* no number.  The other configurations leave both unset.
UsbIds ==
    {[vendor |-> <<>>, product |-> <<>>],
     [vendor |-> <<"0", "x", "1">>, product |-> <<"2">>],
     [vendor |-> <<"z", "z">>, product |-> <<"2">>]}

\* The configurations: with a secret, every transport, the store enabled
\* or not; without a secret ("development mode"), the file transport.
Configs ==
    {c \in [hmac_secret : {<<>>, <<"k">>}, dedupe_enabled : BOOLEAN,
            printer_transport : TransportKinds,
            printer_usb_vendor : {u.vendor : u \in UsbIds},
            printer_usb_product : {u.product : u \in UsbIds}] :
        /\ IF c.printer_transport = "usb"
           THEN [vendor |-> c.printer_usb_vendor, product |-> c.printer_usb_product]
                    \in UsbIds
           ELSE c.printer_usb_vendor = <<>> /\ c.printer_usb_product = <<>>
        /\ c.hmac_secret = <<>> => c.printer_transport = "file"}

\* The responses of /print.
Resp401(reason) ==
    [status |-> 401, success |-> FALSE, message |-> reason, detail |-> ""]
RespDuplicate ==
    [status |-> 200, success |-> TRUE,
     message |-> "Duplicate request (already processed)", detail |-> ""]
RespPrinted ==
    [status |-> 200, success |-> TRUE,
     message |-> "Receipt printed successfully", detail |-> ""]
\* HTTP 500 "Print failed: <str(e)>"; the detail names the call that raised.
RespFailed(raised) ==
    [status |-> 500, success |-> FALSE, message |-> "Print failed", detail |-> raised]
\* An exception that leaves verify_auth is answered by the framework.
RespUnhandled ==
    [status |-> 500, success |-> FALSE, message |-> "Internal Server Error",
     detail |-> ""]
NoResp == [status |-> 0, success |-> FALSE, message |-> "", detail |-> ""]

\* The request body as bytes: a JSON object holding the request id, if any.
BodyOf(id) == <<"{">> \o (IF id = NoId THEN <<>> ELSE <<id>>) \o <<"}">>

\* The X-Timestamp and X-Signature headers a client may send with a body
\* at clock reading t: the time t, the oldest time in the window or the
\* time before it, with its signature under the key "k"; and, with the
\* time t, no signature, no timestamp, one that is not a number, a
\* signature under another key, one that is not ASCII.
SentHeaders(body, t) ==
    LET Signed(ts, key) ==
            [timestamp |-> ts, signature |-> HmacHex(key, SignedMessage(ts, body))]
    IN  {Signed(IntToStr(u), <<"k">>) :
             u \in {t, t - WindowSeconds, t - WindowSeconds - 1}}
            \cup {[timestamp |-> IntToStr(t), signature |-> EmptyStr],
                  [timestamp |-> <<>>, signature |-> Signed(<<>>, <<"k">>).signature],
                  [timestamp |-> <<"x">>, signature |-> Signed(<<"x">>, <<"k">>).signature],
                  Signed(IntToStr(t), <<"j">>),
                  [timestamp |-> IntToStr(t), signature |-> Text(<<"U+00E9">>)]}

\* verify_auth skips verification when no secret is configured
\* ("development mode").
SkipsAuth(secret) == secret = <<>>

\* Mutant: verify_auth logs a failed AuthResult and returns.
AuthNeverRejects(result) == FALSE

\* verify_auth raises HTTPException(401) for a failed AuthResult.
AuthRejects(result) == ~result.success

\* print_receipt consults the store when it exists and the id is non-empty.
ConsultsStore(c, id) == c.dedupe_enabled /\ id # NoId

\* Mutant: print_receipt ignores what check_and_mark returns.
NeverDuplicateAnswer(isNew) == FALSE

\* print_receipt answers "duplicate" when check_and_mark returns False.
IsDuplicateAnswer(isNew) == ~isNew

\* Mutant: the print attempt does not wait for the lock.
LockAlwaysAvailable(isLocked, queue) == TRUE

\* Mutant: acquire takes a free lock although requests wait for it.
LockUnlocked(isLocked, queue) == ~isLocked

\* Mutant: release() wakes nobody.
WakeUpNobody(queue) == {}

\* asyncio.Lock.release calls _wake_up_first: the future of the first
\* waiter, if there is one, is completed.
WakeUpFirst(queue) == IF queue # <<>> THEN {Head(queue)} ELSE {}

\* asyncio.Lock.acquire takes the lock at once when it is free and nobody
\* waits for it; otherwise the caller queues.
LockAvailable(isLocked, queue) == ~isLocked /\ queue = <<>>

IsHexDigit(c) ==
    IsDigit(c) \/ c \in {"a", "b", "c", "d", "e", "f", "A", "B", "C", "D", "E", "F"}

\* int(s, 16) for a str that starts with "0x": after the prefix comes a
\* well-grouped run of hexadecimal digits, which one underscore may
\* precede and whitespace may follow.
Base16Parses(s) ==
    LET h == RStrip(SubSeq(s, 3, Len(s)), IntSpace)
        g == IF h # <<>> /\ Head(h) = "_" THEN Tail(h) ELSE h
    IN  /\ g # <<>>
        /\ \A i \in 1..Len(g) :
             \/ IsHexDigit(g[i])
             \/ /\ g[i] = "_" /\ 1 < i /\ i < Len(g)
                /\ IsHexDigit(g[i - 1]) /\ IsHexDigit(g[i + 1])

\* int(id, 16) if id.startswith("0x") else int(id) returns a number.
UsbIdParses(id) ==
    IF Len(id) >= 2 /\ id[1] = "0" /\ id[2] = "x" THEN Base16Parses(id)
    ELSE IntParses(id)

\* get_transport raises ValueError for usb with an id unset or an id that
\* is no number, and for an unknown kind.
GetTransportRaises(c) ==
    \/ /\ c.printer_transport = "usb"
       /\ \/ c.printer_usb_vendor = <<>> \/ c.printer_usb_product = <<>>
          \/ ~UsbIdParses(c.printer_usb_vendor)
          \/ ~UsbIdParses(c.printer_usb_product)
    \/ c.printer_transport \notin {"file", "serial", "usb"}

\* body.idea_id as a request may carry it: one the code page holds, one it
\* does not hold.
SentIdeaIds == {<<"i">>, <<"U+2603">>}

\* build_receipt, called with the default profile, raises
\* UnicodeEncodeError at its id line and nowhere else.
BuildReceiptRaises(idea_id) == HasIdLine(idea_id) /\ EncodeRaises(IdLabel \o idea_id)

\* How check_and_mark can end in the handler: it returns, or the database
\* is locked or cannot be written and sqlite3.OperationalError leaves it.
CheckAndMarkEnds == {"returns", "raises"}

\* How transport.close() can end: the handle given back, or an exception
\* of the flush or of the device, which leaves the handle set.
CloseOutcomes == {"ok", "raise"}

\* How transport.open() can end: the handle set, an exception with no
\* handle, or (usb) an exception after usb.core.find returned the device.
OpenOutcomes(kind) ==
    IF kind = "usb" THEN {"ok", "raise", "found_raise"} ELSE {"ok", "raise"}

\* The transport object after open(): _file / _serial / _device.
TransportAfterOpen(o) ==
    IF o = "ok" THEN "open" ELSE IF o = "found_raise" THEN "found" ELSE "closed"

\* What transport.write(data) can return: file and serial writes are
\* complete; a usb bulk write that times out returns the bytes transferred
\* (here all of them or all but one).
WriteReturns(kind) == IF kind = "usb" THEN (DocLen - 1)..DocLen ELSE {DocLen}

\* Mutant: the except clause swallows the exception.
AttemptAlwaysPrinted(raised, written) == RespPrinted

\* print_receipt's answer once the try block is left: the except clause
\* turns any exception into HTTP 500; the return value of write is not read.
AttemptOutcome(raised, written) ==
    IF raised # "none" THEN RespFailed(raised) ELSE RespPrinted

\* No request has arrived and no store call is under way.
ServerIdle ==
    /\ now = 0
    /\ db = NoRows
    /\ locked = FALSE
    /\ waiters = <<>>
    /\ woken = {}
    /\ pc = [r \in Reqs |-> "idle"]
    /\ rid = [r \in Reqs |-> NoId]
    /\ auth = [r \in Reqs |-> "none"]
    /\ cam = [r \in Reqs |-> "none"]
    /\ built = [r \in Reqs |-> FALSE]
    /\ tookLock = [r \in Reqs |-> FALSE]
    /\ tr = [r \in Reqs |-> "none"]
    /\ exc = [r \in Reqs |-> "none"]
    /\ opens = [r \in Reqs |-> 0]
    /\ writes = [r \in Reqs |-> 0]
    /\ wrote = [r \in Reqs |-> -1]
    /\ outcome = [r \in Reqs |-> NoResp]
    /\ spc = [c \in Callers |-> "idle"]
    /\ sop = [c \in Callers |-> "none"]
    /\ sid = [c \in Callers |-> NoId]
    /\ sat = [c \in Callers |-> 0]
    /\ txn = [c \in Callers |-> NoRows]
    /\ sret = [c \in Callers |-> "none"]
    /\ wlock = 0
    /\ raced = [c \in Callers |-> FALSE]
    /\ grants = [id \in Ids |-> {}]

\* No library function is being called on its own.
NoCall == <<>>

Init ==
    /\ cfg \in Configs
    /\ ServerIdle
    /\ fpc = "none"
    /\ fin = NoCall
    /\ fout = NoCall

\* time.time() advances (a step of SpecStore).
Tick ==
    /\ now < MaxTime
    /\ now' = now + 1
    /\ UNCHANGED <<cfg, db, locked, waiters, woken, pc, rid, auth, cam, built,
                   tookLock, tr, exc, opens, writes, wrote, outcome, svars, fvars>>

\* A /print request arrives and the verify_auth dependency runs; the
\* handler is entered only if it does not raise.  The requests that have
\* not arrived are alike, and an arriving request is given the lowest
\* number that is free.
VerifyAuth(r) ==
    /\ pc[r] = "idle"
    /\ \A q \in Reqs : q < r => pc[q] # "idle"
    /\ \E id \in Ids \cup {NoId} :
         IF SkipsAuth(cfg.hmac_secret)
         THEN /\ auth' = [auth EXCEPT ![r] = "skipped"]
              /\ rid' = [rid EXCEPT ![r] = id]
              /\ pc' = [pc EXCEPT ![r] = "handler"]
              /\ UNCHANGED outcome
         ELSE \E sent \in SentHeaders(BodyOf(id), now) :
           LET result == VerifySignature(BodyOf(id), sent.signature, sent.timestamp,
                                         cfg.hmac_secret, WindowSeconds, now)
           IN       /\ auth' = [auth EXCEPT ![r] =
                                   IF result.raised # "none" THEN "raised"
                                   ELSE IF result.success THEN "ok"
                                   ELSE result.error]
                    /\ IF result.raised # "none"
                       THEN /\ pc' = [pc EXCEPT ![r] = "done"]
                            /\ outcome' = [outcome EXCEPT ![r] = RespUnhandled]
                            /\ UNCHANGED rid
                       ELSE IF AuthRejects(result)
                       THEN /\ pc' = [pc EXCEPT ![r] = "done"]
                            /\ outcome' = [outcome EXCEPT ![r] = Resp401(result.error)]
                            /\ UNCHANGED rid
                       ELSE /\ pc' = [pc EXCEPT ![r] = "handler"]
                            /\ rid' = [rid EXCEPT ![r] = id]
                            /\ UNCHANGED outcome
    /\ UNCHANGED <<cfg, now, db, locked, waiters, woken, cam, built, tookLock,
                   tr, exc, opens, writes, wrote, svars, fvars>>

\* print_receipt up to its first suspension point: the duplicate check,
\* build_receipt, and Lock.acquire (async with _print_lock), which takes
\* the lock at once or queues the request.  An exception of check_and_mark
\* or of build_receipt leaves the handler: both are called outside the try
\* block, and the framework answers.
Handle(r) ==
    /\ pc[r] = "handler"
    /\ \E idea_id \in SentIdeaIds,
          ends \in IF ConsultsStore(cfg, rid[r]) THEN CheckAndMarkEnds ELSE {"returns"} :
         LET consults == ConsultsStore(cfg, rid[r])
             isNew == CheckAndMarkResult(db, rid[r])
             dup == consults /\ IsDuplicateAnswer(isNew)
         IN  IF consults /\ ends = "raises"
             THEN /\ cam' = [cam EXCEPT ![r] = "raised"]
                  /\ pc' = [pc EXCEPT ![r] = "done"]
                  /\ outcome' = [outcome EXCEPT ![r] = RespUnhandled]
                  /\ UNCHANGED <<db, built, locked, waiters, tookLock>>
             ELSE
             /\ db' = IF consults THEN CheckAndMarkRows(db, rid[r], now) ELSE db
             /\ cam' = [cam EXCEPT ![r] =
                          IF ~consults THEN "none" ELSE IF isNew THEN "new" ELSE "dup"]
             /\ IF dup
                THEN /\ pc' = [pc EXCEPT ![r] = "done"]
                     /\ outcome' = [outcome EXCEPT ![r] = RespDuplicate]
                     /\ UNCHANGED <<built, locked, waiters, tookLock>>
                ELSE IF BuildReceiptRaises(idea_id)
                THEN /\ pc' = [pc EXCEPT ![r] = "done"]
                     /\ outcome' = [outcome EXCEPT ![r] = RespUnhandled]
                     /\ UNCHANGED <<built, locked, waiters, tookLock>>
                ELSE /\ built' = [built EXCEPT ![r] = TRUE]
                     /\ UNCHANGED outcome
                     /\ IF LockAvailable(locked, waiters)
                        THEN /\ locked' = TRUE
                             /\ tookLock' = [tookLock EXCEPT ![r] = TRUE]
                             /\ pc' = [pc EXCEPT ![r] = "open"]
                             /\ UNCHANGED waiters
                        ELSE /\ waiters' = Append(waiters, r)
                             /\ pc' = [pc EXCEPT ![r] = "waiting"]
                             /\ UNCHANGED <<locked, tookLock>>
    /\ UNCHANGED <<cfg, now, woken, rid, auth, tr, exc, opens, writes, wrote,
                   svars, fvars>>

\* Lock.acquire resumes after release() completed the waiter's future.
WakeUp(r) ==
    /\ pc[r] = "waiting"
    /\ r \in woken
    /\ woken' = woken \ {r}
    /\ waiters' = SelectSeq(waiters, LAMBDA w : w # r)
    /\ locked' = TRUE
    /\ tookLock' = [tookLock EXCEPT ![r] = TRUE]
    /\ pc' = [pc EXCEPT ![r] = "open"]
    /\ UNCHANGED <<cfg, now, db, rid, auth, cam, built, tr, exc, opens, writes,
                   wrote, outcome, svars, fvars>>

\* The print attempt ends: the response is decided and the async with
\* block releases the lock, which wakes the first waiter.
Leave(r) ==
    /\ outcome' = [outcome EXCEPT ![r] = AttemptOutcome(exc'[r], wrote[r])]
    /\ locked' = FALSE
    /\ woken' = woken \cup WakeUpFirst(waiters)
    /\ pc' = [pc EXCEPT ![r] = "done"]
    /\ UNCHANGED waiters

\* transport = get_transport(config); with transport: __enter__ calls
\* open().  An exception in either goes to the except clause: __exit__
\* does not run.
Open(r) ==
    /\ pc[r] = "open"
    /\ IF GetTransportRaises(cfg)
       THEN /\ exc' = [exc EXCEPT ![r] = "get_transport"]
            /\ Leave(r)
            /\ UNCHANGED <<tr, opens>>
       ELSE /\ opens' = [opens EXCEPT ![r] = @ + 1]
            /\ \E o \in OpenOutcomes(cfg.printer_transport) :
                 /\ tr' = [tr EXCEPT ![r] = TransportAfterOpen(o)]
                 /\ IF o = "ok"
                    THEN /\ pc' = [pc EXCEPT ![r] = "write"]
                         /\ UNCHANGED <<exc, outcome, locked, woken, waiters>>
                    ELSE /\ exc' = [exc EXCEPT ![r] = "open"]
                         /\ Leave(r)
    /\ UNCHANGED <<cfg, now, db, rid, auth, cam, built, tookLock, writes, wrote,
                   svars, fvars>>

\* transport.write(receipt_bytes): it returns a count or raises.
Write(r) ==
    /\ pc[r] = "write"
    /\ writes' = [writes EXCEPT ![r] = @ + 1]
    /\ \/ \E n \in WriteReturns(cfg.printer_transport) :
            /\ wrote' = [wrote EXCEPT ![r] = n]
            /\ UNCHANGED exc
       \/ /\ exc' = [exc EXCEPT ![r] = "write"]
          /\ UNCHANGED wrote
    /\ pc' = [pc EXCEPT ![r] = "close"]
    /\ UNCHANGED <<cfg, now, db, locked, waiters, woken, rid, auth, cam, built,
                   tookLock, tr, opens, outcome, svars, fvars>>

\* The with statement ends, after write returned or raised: __exit__ calls
\* close(); then the handler returns, or its except clause raises 500.  An
\* exception of close() is the one the except clause gets, and the
\* transport keeps the handle close() did not reset.
Close(r) ==
    /\ pc[r] = "close"
    /\ \E o \in CloseOutcomes :
         IF o = "ok"
         THEN /\ tr' = [tr EXCEPT ![r] = "closed"]
              /\ UNCHANGED exc
         ELSE /\ exc' = [exc EXCEPT ![r] = "close"]
              /\ UNCHANGED tr
    /\ Leave(r)
    /\ UNCHANGED <<cfg, now, db, rid, auth, cam, built, tookLock, opens, writes,
                   wrote, svars, fvars>>

Next ==
    \/ \E r \in Reqs : VerifyAuth(r)
    \/ \E r \in Reqs : Handle(r)
    \/ \E r \in Reqs : WakeUp(r)
    \/ \E r \in Reqs : Open(r)
    \/ \E r \in Reqs : Write(r)
    \/ \E r \in Reqs : Close(r)

Spec == Init /\ [][Next]_vars

\* ------------------------------------------- the store, called concurrently
\* Every DedupeStore call opens a connection of its own (_connection), runs
\* one statement in an implicit transaction, commits and closes.  SQLite
\* lets one connection write at a time: the statement takes the write lock
\* and the commit gives it back, so the rows a transaction read are still
\* the committed rows when it commits.  A SELECT takes no write lock, but
\* while it has a row to hand over its connection holds the shared lock,
\* and no other connection can commit.

\* SQLite's write lock is free for caller c's statement.
WriteLockFree(holder, c) == holder = 0

\* The calls that write.
WriteCalls == {"check_and_mark", "mark_processed", "cleanup_expired"}

\* Caller c's connection holds the shared lock: is_duplicate's SELECT found
\* a row, which fetchone() has not taken yet.
HoldsSharedLock(c) == spc[c] = "commit" /\ sop[c] = "is_duplicate" /\ sret[c] = TRUE

\* Caller c's COMMIT can take the exclusive lock: no other connection
\* holds the shared lock.
CanCommit(c) == \A d \in Callers \ {c} : ~HoldsSharedLock(d)

\* The calls a caller can make.
StoreCalls ==
    {[op |-> "check_and_mark", id |-> id] : id \in Ids}
        \cup {[op |-> "cleanup_expired", id |-> NoId]}
        \cup {[op |-> "is_duplicate", id |-> "a"]}

\* The caller makes one of the calls: it reads the clock (is_duplicate
\* does not) and connects.
SBeginCall(c, calls) ==
    /\ spc[c] = "idle"
    /\ \E call \in calls :
         /\ sop' = [sop EXCEPT ![c] = call.op]
         /\ sid' = [sid EXCEPT ![c] = call.id]
         /\ raced' = [raced EXCEPT ![c] =
                        /\ call.op = "check_and_mark"
                        /\ \E d \in Callers \ {c} :
                             sop[d] = "check_and_mark" /\ sid[d] = call.id]
         /\ sat' = [sat EXCEPT ![c] = IF call.op \in WriteCalls THEN now ELSE 0]
    /\ spc' = [spc EXCEPT ![c] = "statement"]
    /\ UNCHANGED <<pvars, fvars, txn, sret, wlock, grants>>

SBegin(c) == SBeginCall(c, StoreCalls)

\* The INSERT of check_and_mark, the INSERT OR REPLACE of mark_processed or
\* the DELETE of cleanup_expired runs on the committed rows, under the
\* write lock; the SELECT of is_duplicate reads them without it.
SStatement(c) ==
    /\ spc[c] = "statement"
    /\ IF sop[c] = "is_duplicate"
       THEN /\ sret' = [sret EXCEPT ![c] = IsDuplicateResult(db, sid[c])]
            /\ UNCHANGED <<txn, wlock>>
       ELSE /\ WriteLockFree(wlock, c)
            /\ wlock' = c
            /\ IF sop[c] = "check_and_mark"
               THEN /\ txn' = [txn EXCEPT ![c] = CheckAndMarkRows(db, sid[c], sat[c])]
                    /\ sret' = [sret EXCEPT ![c] = CheckAndMarkResult(db, sid[c])]
               ELSE IF sop[c] = "mark_processed"
               THEN /\ txn' = [txn EXCEPT ![c] = MarkProcessedRows(db, sid[c], sat[c])]
                    /\ sret' = [sret EXCEPT ![c] = "None"]
               ELSE /\ txn' = [txn EXCEPT ![c] =
                                 CleanupRows(db, Cutoff(sat[c], TtlSeconds))]
                    /\ sret' = [sret EXCEPT ![c] =
                                  CleanupCount(db, Cutoff(sat[c], TtlSeconds))]
    /\ spc' = [spc EXCEPT ![c] = "commit"]
    /\ UNCHANGED <<pvars, fvars, sop, sid, sat, raced, grants>>

\* The statement waits for the write lock longer than the busy timeout:
\* sqlite3.OperationalError leaves the call, which returns nothing.
SBusy(c) ==
    /\ spc[c] = "statement"
    /\ sop[c] \in WriteCalls
    /\ ~WriteLockFree(wlock, c)
    /\ spc' = [spc EXCEPT ![c] = "idle"]
    /\ sop' = [sop EXCEPT ![c] = "none"]
    /\ sid' = [sid EXCEPT ![c] = NoId]
    /\ sat' = [sat EXCEPT ![c] = 0]
    /\ raced' = [raced EXCEPT ![c] = FALSE]
    /\ UNCHANGED <<pvars, fvars, txn, sret, wlock, grants>>

\* conn.commit() and conn.close(): the transaction's rows become the
\* committed rows and the call returns its value.  is_duplicate has no
\* transaction: fetchone() takes the row, which ends the SELECT, and the
\* call returns.
SCommit(c) ==
    /\ spc[c] = "commit"
    /\ IF sop[c] = "is_duplicate"
       THEN UNCHANGED <<db, wlock>>
       ELSE /\ CanCommit(c)
            /\ db' = txn[c]
            /\ wlock' = 0
    /\ grants' = IF sop[c] = "check_and_mark" /\ sret[c] = TRUE
                 THEN [grants EXCEPT ![sid[c]] = @ \cup {sat[c]}]
                 ELSE grants
    /\ spc' = [spc EXCEPT ![c] = "idle"]
    /\ sop' = [sop EXCEPT ![c] = "none"]
    /\ sid' = [sid EXCEPT ![c] = NoId]
    /\ sat' = [sat EXCEPT ![c] = 0]
    /\ txn' = [txn EXCEPT ![c] = NoRows]
    /\ sret' = [sret EXCEPT ![c] = "none"]
    /\ raced' = [raced EXCEPT ![c] = FALSE]
    /\ UNCHANGED <<cfg, now, locked, waiters, woken, pc, rid, auth, cam, built,
                   tookLock, tr, exc, opens, writes, wrote, outcome, fvars>>

\* conn.commit() waits for the shared lock of another connection longer
\* than the busy timeout: sqlite3.OperationalError leaves the call, which
\* returns nothing; conn.close() drops the transaction and the write lock.
SCommitBusy(c) ==
    /\ spc[c] = "commit"
    /\ sop[c] \in WriteCalls
    /\ ~CanCommit(c)
    /\ wlock' = 0
    /\ spc' = [spc EXCEPT ![c] = "idle"]
    /\ sop' = [sop EXCEPT ![c] = "none"]
    /\ sid' = [sid EXCEPT ![c] = NoId]
    /\ sat' = [sat EXCEPT ![c] = 0]
    /\ txn' = [txn EXCEPT ![c] = NoRows]
    /\ sret' = [sret EXCEPT ![c] = "none"]
    /\ raced' = [raced EXCEPT ![c] = FALSE]
    /\ UNCHANGED <<pvars, fvars, grants>>

InitStore ==
    /\ Init
    /\ cfg = [hmac_secret |-> <<"k">>, dedupe_enabled |-> TRUE,
              printer_transport |-> "file", printer_usb_vendor |-> <<>>,
              printer_usb_product |-> <<>>]

NextStore ==
    \/ Tick
    \/ \E c \in Callers : SBegin(c)
    \/ \E c \in Callers : SStatement(c)
    \/ \E c \in Callers : SBusy(c)
    \/ \E c \in Callers : SCommit(c)
    \/ \E c \in Callers : SCommitBusy(c)

SpecStore == InitStore /\ [][NextStore]_vars

\* ---------------------------------------------------------------- claims
\* The requests that hold the print lock: between Lock.acquire and release.
InCritical(r) == pc[r] \in {"open", "write", "close"}

\* The request's transport object holds a handle or a device.
HoldsHandle(r) == tr[r] \in {"open", "found"}

\* The request was rejected by verify_auth and left no trace but its 401.
Untouched(r) ==
    /\ cam[r] = "none"
    /\ ~built[r]
    /\ ~tookLock[r]
    /\ tr[r] = "none"
    /\ opens[r] = 0
    /\ writes[r] = 0

\* C1: with idempotency enabled, a request whose print attempt failed at the
\* transport (get_transport, open or write raised) is not left marked as
\* processed: once it has failed, the store holds no record for its id.
C1_FailedNeverMarked ==
    \A r \in Reqs :
        (auth[r] = "ok" /\ pc[r] = "done" /\ outcome[r].status = 500 /\ cam[r] = "new")
            => rid[r] \notin DOMAIN db

\* C2: a request whose signature verification fails is rejected with 401 and
\* its reason, and for it check_and_mark is not called, no receipt is built,
\* the lock is not taken and the transport is neither constructed, opened
\* nor written.
C2_RejectedNoSideEffects ==
    \A r \in Reqs :
        auth[r] \notin {"none", "skipped", "ok", "raised"}
            => /\ pc[r] = "done"
               /\ outcome[r] = Resp401(auth[r])
               /\ Untouched(r)

C2_Witness ==
    \E r, q \in Reqs :
        /\ auth[r] = "Invalid signature"
        /\ pc[r] = "done"
        /\ outcome[q] = RespPrinted

\* C3: while the HMAC secret is empty every /print request is rejected with
\* "HMAC secret not configured" before any side effect, and none is printed.
C3_UnconfiguredRejected ==
    cfg.hmac_secret = <<>>
        => \A r \in Reqs :
             pc[r] # "idle"
                => /\ pc[r] = "done"
                   /\ outcome[r] = Resp401("HMAC secret not configured")
                   /\ Untouched(r)

\* C5: a request for which check_and_mark returned False is answered 200
\* "Duplicate request (already processed)" without building a receipt,
\* taking the lock or touching the transport; so with the store enabled at
\* most one request per id ever attempts a transport write, and it attempts
\* one.
C5_DuplicateShortCircuits ==
    /\ \A r \in Reqs :
         cam[r] = "dup"
            => /\ pc[r] = "done"
               /\ outcome[r] = RespDuplicate
               /\ ~built[r]
               /\ ~tookLock[r]
               /\ tr[r] = "none"
               /\ opens[r] = 0
               /\ writes[r] = 0
    /\ cfg.dedupe_enabled
         => \A id \in Ids :
              LET writers == {r \in Reqs : rid[r] = id /\ writes[r] > 0}
              IN  /\ Cardinality(writers) <= 1
                  /\ \A r \in writers : writes[r] = 1

C5_Witness ==
    \E r, q \in Reqs :
        /\ cam[r] = "dup"
        /\ pc[r] = "done"
        /\ rid[q] = rid[r]
        /\ cam[q] = "new"
        /\ writes[q] = 1

\* C6: at most one request is between transport open and transport close
\* (open() has returned and close() has not been called, or is being
\* called), at most one holds the print lock, and a request is at open,
\* write or close only while it holds the lock: it has opened or written
\* only after taking it, and a transport that is open belongs to the
\* request that holds the lock, unless its close() has raised.
C6_PrintSerialized ==
    /\ Cardinality({r \in Reqs : pc[r] \in {"write", "close"}}) <= 1
    /\ Cardinality({r \in Reqs : InCritical(r)}) <= 1
    /\ \A r \in Reqs : InCritical(r) => locked /\ tookLock[r]
    /\ \A r \in Reqs : (opens[r] > 0 \/ writes[r] > 0 \/ tr[r] # "none") => tookLock[r]
    /\ \A r \in Reqs : (tr[r] = "open" /\ exc[r] # "close") => InCritical(r)

C6_Witness ==
    \E r, q \in Reqs :
        /\ pc[r] = "close"
        /\ tr[r] = "open"
        /\ wrote[r] = DocLen
        /\ pc[q] = "waiting"

\* C7: after a print attempt has ended, on any exit path, the request's
\* transport holds no open handle or device, and the print lock is not
\* left held: it is locked only while some request is inside the attempt.
C7_NothingLeftOpen ==
    \A r \in Reqs :
        (auth[r] = "ok" /\ pc[r] = "done")
            => /\ ~HoldsHandle(r)
               /\ locked => \E q \in Reqs : InCritical(q)

\* C8: "Receipt printed successfully" is answered only if write returned the
\* full length of the receipt document.
C8_PartialNeverSuccess ==
    \A r \in Reqs :
        (auth[r] = "ok" /\ outcome[r] = RespPrinted) => wrote[r] = DocLen

\* C9: a request opens the transport at most once and writes to it at most
\* once, and if open or write raised (write was called and returned
\* nothing), its outcome is HTTP 500 "Print failed" naming the error that
\* reached the except clause, never a success.
C9_NoRetryFailureSurfaces ==
    \A r \in Reqs :
        /\ opens[r] <= 1
        /\ writes[r] <= 1
        /\ (pc[r] = "done" /\ (exc[r] = "open" \/ (writes[r] = 1 /\ wrote[r] = -1)))
              => /\ exc[r] \in {"open", "write", "close"}
                 /\ outcome[r] = RespFailed(exc[r])
                 /\ ~outcome[r].success

C9_Witness ==
    \E r, q \in Reqs :
        /\ pc[r] = "done" /\ exc[r] = "write" /\ outcome[r].status = 500
        /\ pc[q] = "done" /\ exc[q] = "open" /\ outcome[q].status = 500

\* A store call returns: its transaction commits (a call whose commit
\* raises returns nothing).
Returns(c, op) ==
    spc[c] = "commit" /\ sop[c] = op /\ spc'[c] = "idle" /\ CanCommit(c)

\* C4: however check_and_mark calls interleave, a call on an id returns
\* True only when every record an earlier True created for that id is past
\* its TTL, and returns False whenever the id has a record; every record is
\* the record of a call that returned True.  So two racing callers on one
\* id never both receive True.
C4_ExactlyOneTrue ==
    /\ [](\A id \in DOMAIN db : db[id] \in grants[id])
    /\ [][\A c \in Callers :
            Returns(c, "check_and_mark")
               => /\ sret[c] = TRUE
                       => \A a \in grants[sid[c]] : now > a + TtlSeconds
                  /\ sret[c] = FALSE <=> sid[c] \in DOMAIN db
                  /\ sid[c] \in DOMAIN db']_vars

C4_Witness ==
    \E c \in Callers :
        /\ spc[c] = "commit"
        /\ sop[c] = "check_and_mark"
        /\ raced[c]
        /\ sret[c] = FALSE
        /\ sid[c] \in DOMAIN db

\* C10: cleanup_expired deletes exactly the records with processed_at <
\* now - ttl_seconds (now as the call read it), returns how many it deleted
\* and leaves the other records as they are; check_and_mark on an id
\* without a record, such as a deleted one, returns True and creates it,
\* and on an id whose record is not expired returns False.
C10_CleanupExact ==
    [][\A c \in Callers :
         /\ Returns(c, "cleanup_expired")
               => /\ DOMAIN db' =
                        {id \in DOMAIN db : ~(db[id] < sat[c] - TtlSeconds)}
                  /\ \A id \in DOMAIN db' : db'[id] = db[id]
                  /\ sret[c] = Cardinality(DOMAIN db \ DOMAIN db')
         /\ Returns(c, "check_and_mark")
               => /\ sid[c] \notin DOMAIN db
                       => sret[c] = TRUE /\ sid[c] \in DOMAIN db'
                  /\ (sid[c] \in DOMAIN db /\ ~(db[sid[c]] < now - TtlSeconds))
                       => sret[c] = FALSE /\ db'[sid[c]] = db[sid[c]]]_vars

C10_Witness ==
    \E id \in Ids :
        /\ Cardinality(grants[id]) >= 2
        /\ id \in DOMAIN db
        /\ \E c \in Callers :
             spc[c] = "commit" /\ sop[c] = "cleanup_expired" /\ sret[c] = 0

\* ------------------------------------- auth.py, called as a library
\* SpecAuth: a client signs a request with generate_signature, and
\* verify_signature is then called on arguments that keep or replace each
\* thing the client signed.

\* A secret that fills a block.
BlockSecret == [i \in 1..HmacBlockSize |-> "k"]

\* HMAC_SECRET values: unset, a key, the key followed by a NUL, another key
\* of a block's length, that key followed by a NUL.
Secrets ==
    {<<>>, <<"k">>, <<"k", "NUL">>, BlockSecret, BlockSecret \o <<"NUL">>}

\* Request bodies: the JSON object of each id, and one with a space before
\* it (JSON allows whitespace around a value).
Bodies == {BodyOf(id) : id \in Ids} \cup {<<" ">> \o BodyOf(id) : id \in {"a"}}

\* Timestamps a client signs, on both sides of every clock reading by more
\* than the widest window.
SignTimes == (0 - WindowSeconds - 1)..(MaxTime + WindowSeconds + 1)

\* window_seconds arguments.
Windows == 0..WindowSeconds

\* The arguments of generate_signature, and the clock at verification.
AuthInputs == [body : Bodies, ts : SignTimes, secret : Secrets, at : 0..MaxTime]

\* X-Timestamp as verify_signature may get it: what was signed, nothing,
\* not a number, the signed number with a space after it, the signed
\* number with a group separator before it.
TimestampArgs(ts) ==
    {IntToStr(ts), <<>>, <<"x">>, IntToStr(ts) \o <<" ">>, <<"GS">> \o IntToStr(ts)}

\* X-Signature as verify_signature may get it: what generate_signature
\* returned, nothing, ASCII that is not hex, a non-ASCII string.
SignatureArgs(sig) == {sig, EmptyStr, Text(<<"z", "z">>), Text(<<"U+00E9">>)}

InitAuth ==
    /\ cfg = [hmac_secret |-> <<"k">>, dedupe_enabled |-> TRUE,
              printer_transport |-> "file", printer_usb_vendor |-> <<>>,
              printer_usb_product |-> <<>>]
    /\ ServerIdle
    /\ fpc = "drawn"
    /\ fin \in AuthInputs
    /\ fout = NoCall

\* signature = generate_signature(body, timestamp, secret)
Sign ==
    /\ fpc = "drawn"
    /\ fout' = [signature |-> GenerateSignature(fin.body, fin.ts, fin.secret)]
    /\ fpc' = "signed"
    /\ UNCHANGED <<pvars, svars, fin>>

\* verify_signature(body, signature, timestamp, secret, window_seconds), at
\* clock reading fin.at.
Verify ==
    /\ fpc = "signed"
    /\ \E body \in Bodies, secret \in Secrets, window \in Windows,
          timestamp \in TimestampArgs(fin.ts),
          signature \in SignatureArgs(fout.signature) :
         fout' = [signature |-> fout.signature,
                  args |-> [body |-> body, signature |-> signature,
                            timestamp |-> timestamp, secret |-> secret,
                            window |-> window],
                  result |-> VerifySignature(body, signature, timestamp, secret,
                                             window, fin.at)]
    /\ fpc' = "verified"
    /\ UNCHANGED <<pvars, svars, fin>>

NextAuth == Sign \/ Verify

SpecAuth == InitAuth /\ [][NextAuth]_vars

\* ---------------------------------------------------- claims on auth.py
\* The arguments and the result of the verify_signature call.
Args == fout.args
Result == fout.result

\* The call verifies the signature the client made, with the timestamp
\* string the client signed, inside the window, and the client's secret
\* was not empty.
VerifiesOwnSignature ==
    /\ fpc = "verified"
    /\ fin.secret # <<>>
    /\ Args.signature = fout.signature
    /\ Args.timestamp = IntToStr(fin.ts)
    /\ Abs(fin.at - fin.ts) <= Args.window

\* C11, as stated: a signature made with a non-empty secret for a timestamp
\* inside the window verifies with the same body and secret, and fails with
\* "Invalid signature" for any other body or any other (non-empty) secret; and
\* generate_signature returns another signature as soon as the body, the
\* timestamp or the secret is another.
C11_AnyOtherSecretFails ==
    /\ VerifiesOwnSignature
         => /\ (Args.body = fin.body /\ Args.secret = fin.secret) => Result = AuthOk
            /\ (Args.secret # <<>>
                  /\ (Args.body # fin.body \/ Args.secret # fin.secret))
                  => Result = AuthFail("Invalid signature")
    /\ fpc = "verified"
         => \A b \in Bodies, t \in SignTimes, k \in Secrets :
              (b # fin.body \/ t # fin.ts \/ k # fin.secret)
                 => GenerateSignature(b, t, k) # fout.signature

\* C11, amended: a signature made with a non-empty secret for a timestamp
\* inside the window verifies with the same body and secret; it fails with
\* "Invalid signature" for another body, and for another non-empty secret
\* unless the two secrets are one HMAC key (they differ in trailing NUL
\* bytes only), in which case it verifies; with an empty secret it fails
\* with "HMAC secret not configured".  generate_signature returns another
\* signature when the body alone or the timestamp alone is another, or
\* when the secret is one with another HMAC key.
C11_RoundTrip ==
    /\ VerifiesOwnSignature
         => /\ (Args.body = fin.body /\ HmacKey(Args.secret) = HmacKey(fin.secret))
                  => Result = AuthOk
            /\ Args.secret = <<>> => Result = AuthFail("HMAC secret not configured")
            /\ (Args.secret # <<>>
                  /\ (Args.body # fin.body \/ HmacKey(Args.secret) # HmacKey(fin.secret)))
                  => Result = AuthFail("Invalid signature")
    /\ fpc = "signed"
         => /\ \A b \in Bodies \ {fin.body} :
                 GenerateSignature(b, fin.ts, fin.secret) # fout.signature
            /\ \A t \in SignTimes \ {fin.ts} :
                 GenerateSignature(fin.body, t, fin.secret) # fout.signature
            /\ \A k \in Secrets :
                 HmacKey(k) # HmacKey(fin.secret)
                    => GenerateSignature(fin.body, fin.ts, k) # fout.signature

\* A signature for a past timestamp at the edge of the window is verified
\* against another body and rejected, under the secret that signed it.
C11_Witness ==
    /\ VerifiesOwnSignature
    /\ fin.at - fin.ts = Args.window
    /\ Args.window > 0
    /\ Args.secret = fin.secret
    /\ Args.body # fin.body
    /\ Result = AuthFail("Invalid signature")

\* The reason the claimed order of checks gives: that of the first check,
\* in the order empty secret, empty signature, empty timestamp, timestamp
\* not an integer, timestamp outside the window, signature mismatch, that
\* the arguments fail; "None" when they pass them all.
FirstFailure(a, t) ==
    IF a.secret = <<>> THEN "HMAC secret not configured"
    ELSE IF a.signature = EmptyStr THEN "Missing signature"
    ELSE IF a.timestamp = <<>> THEN "Missing timestamp"
    ELSE IF ~IntParses(a.timestamp) THEN "Invalid timestamp format"
    ELSE IF Abs(t - IntValue(a.timestamp)) > a.window THEN "Timestamp too old"
    ELSE IF a.signature # HmacHex(a.secret, a.timestamp \o a.body)
         THEN "Invalid signature"
    ELSE "None"

\* C12: verify_signature returns the reason of the first check, in the
\* fixed order, that its arguments fail, and success when they fail none.
C12_FirstFailingCheck ==
    fpc = "verified"
        => Result = IF FirstFailure(Args, fin.at) = "None" THEN AuthOk
                    ELSE AuthFail(FirstFailure(Args, fin.at))

\* The request is the one the client signed, under the client's secret.
CorrectlySigned ==
    /\ fpc = "verified"
    /\ fin.secret # <<>>
    /\ Args.secret = fin.secret
    /\ Args.body = fin.body
    /\ Args.signature = fout.signature
    /\ Args.timestamp = IntToStr(fin.ts)

\* C13: a correctly signed request is accepted exactly when its timestamp
\* is at most window_seconds away from the clock, in the past or in the
\* future; otherwise it is rejected as "too old", whichever side it is on;
\* and a request accepted under one window is accepted under every larger
\* one.
C13_WindowBoundary ==
    CorrectlySigned
        => /\ Result.success <=> Abs(fin.at - fin.ts) <= Args.window
           /\ ~Result.success => Result = AuthFail("Timestamp too old")
           /\ Result.success
                 => \A w \in Args.window..(WindowSeconds + 1) :
                      VerifySignature(Args.body, Args.signature, Args.timestamp,
                                      Args.secret, w, fin.at) = AuthOk

\* A timestamp exactly window_seconds in the future is accepted, under a
\* window that would reject the next second.
C13_Witness ==
    /\ CorrectlySigned
    /\ Args.window > 0
    /\ fin.ts - fin.at = Args.window
    /\ Result = AuthOk
    /\ VerifySignature(Args.body, Args.signature, IntToStr(fin.ts + 1), Args.secret,
                       Args.window, fin.at).error = "Timestamp too old"

\* C14: verify_signature raises nothing: every call returns an AuthResult,
\* with a reason when success is false and without one when it is true.
C14_NeverRaises ==
    fpc = "verified"
        => /\ Result.raised = "none"
           /\ Result.success <=> Result.error = "None"

\* -------------------------------------------------------- renderer.py
\* A str is a sequence of characters, a line of text too; the blank line
\* is the empty sequence.

\* The indices at or after i where sep occurs in s.
Occurrences(s, sep, i) ==
    {k \in i..(Len(s) - Len(sep) + 1) : SubSeq(s, k, k + Len(sep) - 1) = sep}

\* The first index at or after i where sep occurs in s, or 0.
Find(s, sep, i) ==
    LET hits == Occurrences(s, sep, i)
    IN  IF hits = {} THEN 0 ELSE CHOOSE k \in hits : \A j \in hits : k <= j

\* s.split(sep): the pieces between the occurrences of sep, found from the
\* left and not overlapping.
RECURSIVE Split(_, _)
Split(s, sep) ==
    LET i == Find(s, sep, 1)
    IN  IF i = 0 THEN <<s>>
        ELSE <<SubSeq(s, 1, i - 1)>> \o Split(SubSeq(s, i + Len(sep), Len(s)), sep)

\* The characters textwrap treats as whitespace: it splits words at them
\* and replaces each by a space.  (Of WhiteSpace, GS is not one of them.)
TextwrapSpace == {" ", "\n", "\t"}

\* str.expandtabs(): a tab becomes the spaces up to the next multiple of 8.
RECURSIVE ExpandTabs(_, _)
ExpandTabs(s, col) ==
    IF s = <<>> THEN <<>>
    ELSE IF Head(s) = "\t"
         THEN [i \in 1..(8 - (col % 8)) |-> " "] \o ExpandTabs(Tail(s), 0)
    ELSE IF Head(s) = "\n" THEN <<Head(s)>> \o ExpandTabs(Tail(s), 0)
    ELSE <<Head(s)>> \o ExpandTabs(Tail(s), col + 1)

\* TextWrapper._munge_whitespace: tabs expanded, then every whitespace
\* character replaced by a space.
MungeWhitespace(s) ==
    LET e == ExpandTabs(s, 0)
    IN  [i \in 1..Len(e) |-> IF e[i] \in TextwrapSpace THEN " " ELSE e[i]]

\* The length of the run at the head of s of characters that all are, or
\* all are not, whitespace.
RECURSIVE RunLength(_, _)
RunLength(s, space) ==
    IF s = <<>> \/ ((Head(s) \in TextwrapSpace) # space) THEN 0
    ELSE 1 + RunLength(Tail(s), space)

\* TextWrapper._split with break_on_hyphens=False: the text cut into its
\* words and the whitespace runs between them.
RECURSIVE Chunks(_)
Chunks(s) ==
    IF s = <<>> THEN <<>>
    ELSE LET n == RunLength(s, Head(s) \in TextwrapSpace)
         IN  <<SubSeq(s, 1, n)>> \o Chunks(SubSeq(s, n + 1, Len(s)))

\* chunk.strip() == '': the chunk holds str.isspace() characters only.
IsBlank(chunk) == \A i \in 1..Len(chunk) : IsSpace(chunk[i])

\* The inner loop of _wrap_chunks: chunks are taken while they fit.
RECURSIVE FillLine(_, _, _, _)
FillLine(chunks, width, cur, curLen) ==
    IF chunks # <<>> /\ curLen + Len(Head(chunks)) <= width
    THEN FillLine(Tail(chunks), width, Append(cur, Head(chunks)),
                  curLen + Len(Head(chunks)))
    ELSE [line |-> cur, rest |-> chunks]

\* Mutant: break_long_words=True, a word longer than the width is cut.
BreakLongWord(filled, width) ==
    IF filled.rest # <<>> /\ Len(Head(filled.rest)) > width /\ filled.line = <<>>
    THEN [line |-> <<SubSeq(Head(filled.rest), 1, width)>>,
          rest |-> <<SubSeq(Head(filled.rest), width + 1, Len(Head(filled.rest)))>>
                      \o Tail(filled.rest)]
    ELSE filled

\* TextWrapper._handle_long_word with break_long_words=False: a chunk
\* longer than the width goes whole on the line, if the line is empty.
HandleLongWord(filled, width) ==
    IF filled.rest # <<>> /\ Len(Head(filled.rest)) > width /\ filled.line = <<>>
    THEN [line |-> <<Head(filled.rest)>>, rest |-> Tail(filled.rest)]
    ELSE filled

\* drop_whitespace: a blank chunk at the end of a line is dropped.
DropTrailing(line) ==
    IF line # <<>> /\ IsBlank(line[Len(line)])
    THEN SubSeq(line, 1, Len(line) - 1) ELSE line

\* ''.join(chunks)
RECURSIVE Join(_)
Join(chunks) == IF chunks = <<>> THEN <<>> ELSE Head(chunks) \o Join(Tail(chunks))

\* TextWrapper._wrap_chunks, for a width of at least 1: line after line,
\* a blank chunk at the start of a line after the first is dropped.
RECURSIVE WrapChunks(_, _, _)
WrapChunks(chunks, width, lines) ==
    IF chunks = <<>> THEN lines
    ELSE LET start == IF IsBlank(Head(chunks)) /\ lines # <<>>
                      THEN Tail(chunks) ELSE chunks
             taken == HandleLongWord(FillLine(start, width, <<>>, 0), width)
             kept == DropTrailing(taken.line)
         IN  WrapChunks(taken.rest, width,
                        IF kept = <<>> THEN lines ELSE Append(lines, Join(kept)))

\* textwrap.wrap(sub, width=width, break_long_words=False,
\* break_on_hyphens=False)
Wrap(sub, width) == WrapChunks(Chunks(MungeWhitespace(sub)), width, <<>>)

\* Mutant: a blank line after every paragraph, the last one too.
SeparatorAfterEvery(i, n) == TRUE

\* wrap_text: if i < len(paragraphs) - 1, for the i-th of n paragraphs
\* counted from 1.
SeparatorAfter(i, n) == i < n

\* The body of wrap_text's inner loop, for the sub-lines from the j-th on.
RECURSIVE SubLines(_, _, _)
SubLines(subs, j, width) ==
    IF j > Len(subs) THEN <<>>
    ELSE LET sub == Strip(subs[j])
             wrapped == Wrap(sub, width)
         IN  (IF sub = <<>> \/ wrapped = <<>> THEN << <<>> >> ELSE wrapped)
                \o SubLines(subs, j + 1, width)

\* The body of wrap_text's outer loop, for the paragraphs from the i-th on.
RECURSIVE Paragraphs(_, _, _)
Paragraphs(paras, i, width) ==
    IF i > Len(paras) THEN <<>>
    ELSE SubLines(Split(paras[i], <<"\n">>), 1, width)
            \o (IF SeparatorAfter(i, Len(paras)) THEN << <<>> >> ELSE <<>>)
            \o Paragraphs(paras, i + 1, width)

\* textwrap.wrap raises ValueError("invalid width") for a width below 1,
\* and wrap_text calls it for every sub-line that is not blank.
WrapTextRaises(text, width) ==
    /\ width <= 0
    /\ \E i \in 1..Len(text) : ~IsSpace(text[i])

\* Renderer.wrap_text(text) under a profile with chars_per_line = width.
WrapText(text, width) == Paragraphs(Split(text, <<"\n", "\n">>), 1, width)

\* -------------------------------- Renderer.wrap_text, called as a library
\* SpecWrap: wrap_text is called on a text under a width.

\* Every text of two letters, the space and the newline, and texts that
\* hold a tab, a separator character, a long word after short ones, three
\* paragraphs.
Texts ==
    UNION {[1..n -> {"a", "b", " ", "\n"}] : n \in 0..TextLen}
      \cup {<<"a", "\t", "b">>, <<"a", "a", "\t", "\t", "b", "b", "b", "b">>,
            <<"a", " ", "GS", " ", "b">>, <<"a", "a", "a", "a", "GS">>,
            <<"a", "GS", "b", " ", "GS", "b">>,
            <<"a", " ", "b", " ", "a", "a", "a", "a", " ", "b">>,
            <<"a", "\n", "\n", "b", "\n", "\n", "a", " ", "b">>,
            <<"a", "b", "\n", "\n", "a", " ", "a", "\n", "\n", "b", "b", "b", "b">>}

InitWrap ==
    /\ cfg = [hmac_secret |-> <<"k">>, dedupe_enabled |-> TRUE,
              printer_transport |-> "file", printer_usb_vendor |-> <<>>,
              printer_usb_product |-> <<>>]
    /\ ServerIdle
    /\ fpc = "drawn"
    /\ fin \in [text : Texts, width : 1..MaxWidth]
    /\ fout = NoCall

\* lines = renderer.wrap_text(text)
WrapTextCall ==
    /\ fpc = "drawn"
    /\ fout' = WrapText(fin.text, fin.width)
    /\ fpc' = "wrapped"
    /\ UNCHANGED <<pvars, svars, fin>>

NextWrap == WrapTextCall

SpecWrap == InitWrap /\ [][NextWrap]_vars

\* ------------------------------------------------ claims on wrap_text
\* The words of a str: its chunks that are not whitespace runs.
Words(s) == SelectSeq(Chunks(s), LAMBDA c : c[1] \notin TextwrapSpace)

\* The words of the lines from the i-th on, in order.
RECURSIVE LineWords(_, _)
LineWords(lines, i) ==
    IF i > Len(lines) THEN <<>> ELSE Words(lines[i]) \o LineWords(lines, i + 1)

\* Every word without the whitespace str.strip() takes from its ends, and
\* without the words of which nothing remains.
RECURSIVE Trimmed(_)
Trimmed(ws) ==
    IF ws = <<>> THEN <<>>
    ELSE (IF Strip(Head(ws)) = <<>> THEN <<>> ELSE <<Strip(Head(ws))>>)
            \o Trimmed(Tail(ws))

RECURSIVE AllSubLines(_, _)
AllSubLines(paras, i) ==
    IF i > Len(paras) THEN <<>>
    ELSE Split(paras[i], <<"\n">>) \o AllSubLines(paras, i + 1)

\* The wrapped lines of the sub-lines from the j-th on that are not empty.
RECURSIVE WrappedOf(_, _, _)
WrappedOf(subs, j, width) ==
    IF j > Len(subs) THEN <<>>
    ELSE (IF Strip(subs[j]) = <<>> THEN <<>> ELSE Wrap(Strip(subs[j]), width))
            \o WrappedOf(subs, j + 1, width)

Blanks(lines) == SelectSeq(lines, LAMBDA l : l = <<>>)
NonBlanks(lines) == SelectSeq(lines, LAMBDA l : l # <<>>)

\* C18: the lines wrap_text returns that are not blank are the wrapped
\* lines of the non-empty sub-lines, in input order; its blank lines are
\* one for each empty sub-line and one after each paragraph but the last;
\* so k non-empty one-line paragraphs give k - 1 blank lines, and the last
\* line is not blank.
C18_ParagraphStructure ==
    fpc = "wrapped"
        => LET paras == Split(fin.text, <<"\n", "\n">>)
               subs == AllSubLines(paras, 1)
               empty == SelectSeq(subs, LAMBDA u : Strip(u) = <<>>)
           IN  /\ NonBlanks(fout) = WrappedOf(subs, 1, fin.width)
               /\ Len(Blanks(fout)) = Len(empty) + Len(paras) - 1
               /\ (Len(empty) = 0 /\ Len(subs) = Len(paras))
                     => /\ Len(Blanks(fout)) = Len(paras) - 1
                        /\ fout[Len(fout)] # <<>>
                        /\ fout[1] # <<>>

\* Three one-line paragraphs, one of them wrapped onto two lines: two
\* blank lines among five or more.
C18_Witness ==
    /\ fpc = "wrapped"
    /\ Len(Split(fin.text, <<"\n", "\n">>)) = 3
    /\ Len(Blanks(fout)) = 2
    /\ Len(fout) >= 6
    /\ fout[Len(fout)] # <<>>

\* -------------------------------------------------------- template.py
\* A byte is named as a character is: a printable ASCII byte by its
\* character, the others by name ("0x82" is the cp437 byte of U+00E9).

\* bytes([n]), for the n that occur.
ByteOf(n) ==
    <<"NUL", "SOH", "STX", "ETX", "EOT", "ENQ", "ACK", "BEL">>[n + 1]

\* renderer.py: the ESC/POS commands.
INIT == <<"ESC", "@">>
ALIGN_LEFT == <<"ESC", "a", "NUL">>
ALIGN_CENTER == <<"ESC", "a", "SOH">>
BOLD_ON == <<"ESC", "E", "SOH">>
BOLD_OFF == <<"ESC", "E", "NUL">>
CUT_FULL == <<"GS", "V", "NUL">>
CUT_PARTIAL == <<"GS", "V", "SOH">>

\* feed(lines)
Feed(n) == <<"ESC", "d", ByteOf(n)>>

\* The cp437 byte of a character the code page holds.
Cp437(c) == IF c = "U+00E9" THEN "0x82" ELSE c

\* str.encode(encoding, errors="replace"): a character outside the code
\* page becomes "?".
EncodeReplace(s) ==
    [i \in 1..Len(s) |-> IF s[i] \in NotInCodePage THEN "?" ELSE Cp437(s[i])]

\* HEADER_ART and HEADER_ART_NARROW, as written in the source.
HEADER_ART ==
    <<"\n", " ", " ", " ", " ", " ", ".", "-", "\"", "\"", "-", ".", "\n",
      " ", " ", " ", " ", "/", " ", " ", " ", " ", " ", " ", "\\", "\n",
      " ", " ", " ", "|", " ", " ", "O", " ", " ", "O", " ", " ", "|", "\n",
      " ", " ", " ", "|", " ", " ", " ", "_", "_", " ", " ", " ", "|", "\n",
      " ", " ", " ", " ", "\\", " ", "\\", "_", "_", "/", " ", "/", "\n",
      " ", " ", " ", " ", " ", "'", "-", ".", ".", "-", "'", "\n", " ", " ",
      " ", " ", " ", " ", " ", "|", "|", "\n", " ", " ", " ", " ", " ", " ",
      "/", "_", "_", "\\", "\n">>

HEADER_ART_NARROW ==
    <<"\n", " ", " ", " ", " ", ".", "-", "-", "-", ".", "\n", " ", " ",
      " ", "/", " ", " ", " ", " ", " ", "\\", "\n", " ", " ", "|", " ",
      "O", " ", " ", " ", "O", " ", "|", "\n", " ", " ", "|", " ", " ", "_",
      "_", "_", " ", " ", "|", "\n", " ", " ", " ", "\\", "_", "_", "_",
      "_", "_", "/", "\n", " ", " ", " ", " ", " ", "|", " ", "|", "\n",
      " ", " ", " ", " ", "/", "_", "_", "_", "\\", "\n">>

\* build_receipt picks the narrow header below this chars_per_line.
NarrowBelow == 42

\* The lines of a header: header.strip().split("\n").
HeaderLines(header) == Split(Strip(header), <<"\n">>)

\* line.encode(encoding, errors="replace") + b"\n" for each of the lines
\* from the i-th on.
RECURSIVE EncodeLines(_, _)
EncodeLines(lines, i) ==
    IF i > Len(lines) THEN <<>>
    ELSE EncodeReplace(lines[i]) \o <<"\n">> \o EncodeLines(lines, i + 1)

\* str.encode(encoding) of a str the code page holds.
EncodeStrict(s) == [i \in 1..Len(s) |-> Cp437(s[i])]

\* The bytes a call returned, or the exception that left it.
Built(bytes) == [raised |-> "none", bytes |-> bytes]
BuildRaise(e) == [raised |-> e, bytes |-> <<>>]

\* Renderer.render_line(char): (char * chars_per_line).encode() + b"\n".
\* The encode is strict: a character outside the code page raises.
RenderLine(char, width) ==
    LET line == [i \in 1..(IF width > 0 THEN width ELSE 0) |-> char]
    IN  IF EncodeRaises(line) THEN BuildRaise("UnicodeEncodeError")
        ELSE Built(EncodeStrict(line) \o <<"\n">>)

\* The title and the footer.
Title == <<"N", "E", "W", " ", "I", "D", "E", "A">>
Footer == <<"*", " ", "*", " ", "*">>

\* str(n) padded with zeros to w digits, as strftime pads its fields.
RECURSIVE Pad(_, _)
Pad(n, w) == IF w = 0 THEN <<>> ELSE Pad(n \div 10, w - 1) \o <<Digits[(n % 10) + 1]>>

\* timestamp.strftime("%Y-%m-%d %H:%M:%S"), for a year of four digits.
Strftime(t) ==
    Pad(t.year, 4) \o <<"-">> \o Pad(t.month, 2) \o <<"-">> \o Pad(t.day, 2)
        \o <<" ">> \o Pad(t.hour, 2) \o <<":">> \o Pad(t.minute, 2)
        \o <<":">> \o Pad(t.second, 2)

\* build_receipt: header = HEADER_ART_NARROW if chars_per_line < 42.
HeaderOf(profile) ==
    IF profile.chars_per_line < NarrowBelow THEN HEADER_ART_NARROW ELSE HEADER_ART

\* The cut command of a cut_type; none for "none".
CutSequence(cut_type) ==
    IF cut_type = "full" THEN CUT_FULL
    ELSE IF cut_type = "partial" THEN CUT_PARTIAL
    ELSE <<>>

\* build_receipt(idea_text, idea_id, timestamp, profile).  The ID line is
\* encoded without errors="replace"; render_line and wrap_text run after it.
BuildReceipt(idea_text, idea_id, timestamp, profile) ==
    IF HasIdLine(idea_id) /\ EncodeRaises(IdLabel \o idea_id)
    THEN BuildRaise("UnicodeEncodeError")
    ELSE IF RenderLine("=", profile.chars_per_line).raised # "none"
    THEN BuildRaise(RenderLine("=", profile.chars_per_line).raised)
    ELSE IF WrapTextRaises(idea_text, profile.chars_per_line)
    THEN BuildRaise("ValueError")
    ELSE Built(
        INIT
        \o ALIGN_CENTER
        \o EncodeLines(HeaderLines(HeaderOf(profile)), 1)
        \o <<"\n">>
        \o BOLD_ON \o EncodeStrict(Title) \o <<"\n">> \o BOLD_OFF
        \o EncodeStrict(Strftime(timestamp)) \o <<"\n">>
        \o (IF HasIdLine(idea_id)
            THEN EncodeStrict(IdLabel \o idea_id) \o <<"\n">> ELSE <<>>)
        \o <<"\n">>
        \o ALIGN_LEFT
        \o RenderLine("=", profile.chars_per_line).bytes
        \o EncodeLines(WrapText(idea_text, profile.chars_per_line), 1)
        \o RenderLine("=", profile.chars_per_line).bytes
        \o ALIGN_CENTER
        \o <<"\n">>
        \o EncodeStrict(Footer) \o <<"\n">>
        \o Feed(profile.feed_lines_before_cut)
        \o CutSequence(profile.cut_type))

\* ----------------------------------- build_receipt, called as a library
\* SpecReceipt: build_receipt is called on an idea under a profile.

\* Idea texts: plain, wrapped, two paragraphs, with characters outside
\* ASCII and outside cp437, with the bytes of a cut command inside a word.
IdeaTexts ==
    {<<"a">>, <<"a", " ", "b", "b", "b", "b">>, <<"a", "\n", "\n", "b">>,
     <<"U+2603", " ", "U+00E9">>, <<"a", "GS", "V", "NUL", "b">>, <<>>}

\* Idea ids: none (None or ''), plain, with a character outside cp437,
\* with the bytes of a cut command.
IdeaIds == {<<>>, <<"a">>, <<"U+2603">>, <<"q", "GS", "V", "SOH">>}

Datetimes ==
    {[year |-> 2024, month |-> 6, day |-> 15, hour |-> 14, minute |-> 30,
      second |-> 0],
     [year |-> 2026, month |-> 1, day |-> 2, hour |-> 3, minute |-> 4,
      second |-> 5]}

\* PrinterProfile(chars_per_line, cut_type, feed_lines_before_cut): the
\* dataclass takes any values; encoding is cp437.
Profiles ==
    [chars_per_line : {0, MaxWidth, NarrowBelow - 1, NarrowBelow},
     cut_type : {"full", "partial", "none"},
     feed_lines_before_cut : {0, 4}]

InitReceipt ==
    /\ cfg = [hmac_secret |-> <<"k">>, dedupe_enabled |-> TRUE,
              printer_transport |-> "file", printer_usb_vendor |-> <<>>,
              printer_usb_product |-> <<>>]
    /\ ServerIdle
    /\ fpc = "drawn"
    /\ fin \in [idea_text : IdeaTexts, idea_id : IdeaIds, timestamp : Datetimes,
                profile : Profiles]
    /\ fout = NoCall

\* receipt_bytes = build_receipt(idea_text, idea_id, timestamp, profile)
Build ==
    /\ fpc = "drawn"
    /\ fout' = BuildReceipt(fin.idea_text, fin.idea_id, fin.timestamp, fin.profile)
    /\ fpc' = "built"
    /\ UNCHANGED <<pvars, svars, fin>>

NextReceipt == Build

SpecReceipt == InitReceipt /\ [][NextReceipt]_vars

\* ---------------------------------------------- claims on build_receipt
\* The bytes build_receipt returned.
Doc == fout.bytes

\* The profile is one a printer has: at least one character per line.
ValidProfile == fin.profile.chars_per_line >= 1

\* The segments are found in doc, in order and without overlap, from
\* index i on.
RECURSIVE InOrder(_, _, _)
InOrder(doc, segments, i) ==
    \/ segments = <<>>
    \/ LET at == Find(doc, Head(segments), i)
       IN  at # 0 /\ InOrder(doc, Tail(segments), at + Len(Head(segments)))

\* How often seq occurs in doc, from index i on.
Count(doc, seq, i) == Cardinality(Occurrences(doc, seq, i))

\* The segments of a receipt, in the order the layout gives them.
Segments ==
    << EncodeLines(HeaderLines(IF fin.profile.chars_per_line < 42
                               THEN HEADER_ART_NARROW ELSE HEADER_ART), 1),
       <<"\n">>,
       BOLD_ON \o Title \o <<"\n">> \o BOLD_OFF,
       Strftime(fin.timestamp) \o <<"\n">>,
       IF fin.idea_id # <<>>
       THEN IdLabel \o EncodeReplace(fin.idea_id) \o <<"\n">> ELSE <<>>,
       <<"\n">>,
       RenderLine("=", fin.profile.chars_per_line).bytes,
       EncodeLines(WrapText(fin.idea_text, fin.profile.chars_per_line), 1),
       RenderLine("=", fin.profile.chars_per_line).bytes,
       Footer \o <<"\n">> >>

\* C15: for every idea text, idea id, timestamp and profile, build_receipt
\* returns bytes that begin with the init sequence, end with the feed
\* followed by the cut sequence of the cut mode (by the feed for "none"),
\* and hold between them, in order, the header art (narrow below 42
\* characters per line), a blank line, the bold title, the timestamp, the
\* ID line if and only if an id is given, a blank line, the divider, the
\* wrapped idea lines, the divider and the footer.
C15_ReceiptStructure ==
    (fpc = "built" /\ ValidProfile)
        => /\ fout.raised = "none"
           /\ SubSeq(Doc, 1, Len(INIT)) = INIT
           /\ LET tail == Feed(fin.profile.feed_lines_before_cut)
                             \o CutSequence(fin.profile.cut_type)
              IN  /\ SubSeq(Doc, Len(Doc) - Len(tail) + 1, Len(Doc)) = tail
                  /\ InOrder(SubSeq(Doc, 1, Len(Doc) - Len(tail)), Segments,
                             Len(INIT) + 1)
           /\ fin.idea_id = <<>> => Find(Doc, IdLabel, 1) = 0

\* C16: the bytes build_receipt returns hold the cut sequence of the cut
\* mode once and the other cut sequence never, and for "none" neither,
\* whatever the idea text and the idea id are.
C16_ExactlyOneCut ==
    (fpc = "built" /\ ValidProfile /\ fout.raised = "none")
        => /\ Count(Doc, CUT_FULL, 1) = IF fin.profile.cut_type = "full" THEN 1 ELSE 0
           /\ Count(Doc, CUT_PARTIAL, 1) =
                 IF fin.profile.cut_type = "partial" THEN 1 ELSE 0

\* The characters of s that cp437 cannot encode.
Unencodable(s) == SelectSeq(s, LAMBDA c : c \in NotInCodePage)

\* C19: build_receipt returns for every idea text and every idea id with
\* characters outside the code page, and the bytes hold the fallback glyph
\* "?" once for each such character.
C19_OutsideCodePageReplaced ==
    (fpc = "built" /\ ValidProfile)
        => /\ fout.raised = "none"
           /\ Count(Doc, <<"?">>, 1) =
                 Len(Unencodable(fin.idea_text)) + Len(Unencodable(fin.idea_id))

\* C20: an invalid configuration is rejected at startup: the ValueError of
\* get_transport (usb without ids, unknown kind) is never raised inside a
\* /print request whose id check_and_mark has just recorded.
C20_NeverSurfacesInRequest ==
    \A r \in Reqs :
        ~(/\ auth[r] = "ok"
          /\ cam[r] = "new"
          /\ rid[r] \in DOMAIN db
          /\ exc[r] = "get_transport"
          /\ outcome[r] = RespFailed("get_transport"))

\* C25: a signature made by generate_signature(body, ts, secret) is accepted
\* by verify_signature only together with the timestamp string str(ts) and
\* the body that were signed, never with another (timestamp, body) pair.
C25_BindsOnePair ==
    (fpc = "verified" /\ Args.signature = fout.signature /\ Result = AuthOk)
        => /\ Args.timestamp = IntToStr(fin.ts)
           /\ Args.body = fin.body

\* ------------------------------- the store, with mark_processed callers
\* SpecMark: callers of check_and_mark, mark_processed and is_duplicate on
\* one id, and of cleanup_expired.
MarkCalls ==
    {[op |-> "check_and_mark", id |-> "a"], [op |-> "mark_processed", id |-> "a"],
     [op |-> "is_duplicate", id |-> "a"], [op |-> "cleanup_expired", id |-> NoId]}

SBeginAny(c) == SBeginCall(c, MarkCalls)

NextMark ==
    \/ Tick
    \/ \E c \in Callers : SBeginAny(c)
    \/ \E c \in Callers : SStatement(c)
    \/ \E c \in Callers : SBusy(c)
    \/ \E c \in Callers : SCommit(c)
    \/ \E c \in Callers : SCommitBusy(c)

SpecMark == InitStore /\ [][NextMark]_vars

\* C26: a check_and_mark call that returns False leaves every record as it
\* is, and the processed_at of a record that exists changes only when a
\* mark_processed call on its id returns: a record made by check_and_mark
\* keeps the time of the call that made it.
C26_DuplicateLeavesStore ==
    [][/\ \A c \in Callers :
            (Returns(c, "check_and_mark") /\ sret[c] = FALSE) => db' = db
       /\ \A id \in DOMAIN db \cap DOMAIN db' :
            db'[id] # db[id]
               => \E c \in Callers : Returns(c, "mark_processed") /\ sid[c] = id]_vars

\* A duplicate check_and_mark is about to return, later than the time in
\* the record of its id, which mark_processed has overwritten, and after an
\* earlier record of the id was deleted.
C26_Witness ==
    \E c \in Callers :
        /\ spc[c] = "commit"
        /\ sop[c] = "check_and_mark"
        /\ sret[c] = FALSE
        /\ now > db[sid[c]]
        /\ db[sid[c]] \notin grants[sid[c]]
        /\ Cardinality(grants[sid[c]]) >= 2

\* ------------------------------------------------ the server, over time
\* SpecServe: the server of Spec goes on serving: when a request has been
\* answered, another /print request arrives in its place.  The event loop
\* runs every task that can run, so a handler that has been entered, or
\* whose wait for the lock has ended, is eventually run.
\* SpecExpiry: the same under one configuration with the store enabled,
\* while the clock advances and requests keep arriving.

\* The answer of request r has been sent; the next request arrives.
NextRequest(r) ==
    /\ pc[r] = "done"
    /\ pc' = [pc EXCEPT ![r] = "idle"]
    /\ rid' = [rid EXCEPT ![r] = NoId]
    /\ auth' = [auth EXCEPT ![r] = "none"]
    /\ cam' = [cam EXCEPT ![r] = "none"]
    /\ built' = [built EXCEPT ![r] = FALSE]
    /\ tookLock' = [tookLock EXCEPT ![r] = FALSE]
    /\ tr' = [tr EXCEPT ![r] = "none"]
    /\ exc' = [exc EXCEPT ![r] = "none"]
    /\ opens' = [opens EXCEPT ![r] = 0]
    /\ writes' = [writes EXCEPT ![r] = 0]
    /\ wrote' = [wrote EXCEPT ![r] = -1]
    /\ outcome' = [outcome EXCEPT ![r] = NoResp]
    /\ UNCHANGED <<cfg, now, db, locked, waiters, woken, svars, fvars>>

\* The steps of print_receipt for request r, which the event loop runs.
Scheduled(r) == Handle(r) \/ WakeUp(r) \/ Open(r) \/ Write(r) \/ Close(r)

EventLoopRuns == \A r \in Reqs : WF_vars(Scheduled(r))

NextServe ==
    \/ Next
    \/ \E r \in Reqs : NextRequest(r)

\* The configuration SpecServe and SpecLive run under: a secret is set,
\* the store is enabled, the transport is a file (open, write and close
\* return or raise).
ServeConfigs ==
    {c \in Configs :
        c.hmac_secret # <<>> /\ c.dedupe_enabled /\ c.printer_transport = "file"}

InitServe ==
    /\ Init
    /\ cfg \in ServeConfigs

SpecServe == InitServe /\ [][NextServe]_vars /\ EventLoopRuns

\* SpecLive: the requests of Spec under the event loop's scheduling.
SpecLive == InitServe /\ [][Next]_vars /\ EventLoopRuns

\* Requests keep arriving and the clock keeps advancing.
RequestsArrive == \A r \in Reqs : WF_vars(VerifyAuth(r)) /\ WF_vars(NextRequest(r))

NextExpiry ==
    \/ NextServe
    \/ Tick

SpecExpiry ==
    InitStore /\ [][NextExpiry]_vars /\ EventLoopRuns /\ RequestsArrive /\ WF_vars(Tick)

\* ------------------------------------------- claims on the server, over time
\* Request r acquires the print lock in this step.
TakesLock(r) == ~tookLock[r] /\ tookLock'[r]

\* Request a began waiting for the lock before request b, and both wait.
WaitsBefore(a, b) ==
    \E i, j \in 1..Len(waiters) : i < j /\ waiters[i] = a /\ waiters[j] = b

\* C22: the lock goes to waiting requests in the order in which they began
\* to wait.  A request takes the lock only when nobody waits or it is the
\* first waiter; while a waits before b, b has not the lock and has written
\* nothing; and while a request holds the lock no other request takes it,
\* and the lock stays held until the holder's own step.
C22_LockInArrivalOrder ==
    [][/\ \A r \in Reqs :
            TakesLock(r) => (waiters = <<>> \/ Head(waiters) = r)
       /\ \A a, b \in Reqs :
            WaitsBefore(a, b) => (~tookLock'[b] /\ writes'[b] = 0)
       /\ \A r, q \in Reqs :
            InCritical(r)
               => /\ q # r => ~TakesLock(q)
                  /\ pc'[r] = pc[r] => (locked' /\ tookLock'[r])]_vars

\* Two requests wait, the first of them woken by release() and not yet
\* run: the second arrived while the lock was free.
C22_Witness ==
    /\ Len(waiters) >= 2
    /\ ~locked
    /\ Head(waiters) \in woken

\* The final outcomes of an accepted request: duplicate, printed, or
\* failed, with the 500 of the except clause or with the framework's.
FinalOutcomes ==
    {RespDuplicate, RespPrinted, RespUnhandled}
        \cup {RespFailed(e) : e \in {"get_transport", "open", "write", "close"}}

\* C23: every request that enters the handler is eventually answered, with
\* one of the final outcomes; an answer, once given, is not replaced; and
\* the lock, when held, is eventually free again.
C23_EveryRequestEnds ==
    /\ \A r \in Reqs :
         (pc[r] = "handler") ~> (pc[r] = "done" /\ outcome[r] \in FinalOutcomes)
    /\ locked ~> ~locked
    /\ [][\A r \in Reqs :
            (outcome[r] # NoResp /\ pc'[r] # "idle") => outcome'[r] = outcome[r]]_vars

\* Every other request waits for the lock, or is about to, behind the
\* request that holds it and has the transport open.
C23_Witness ==
    \E r \in Reqs :
        /\ pc[r] = "write"
        /\ Len(waiters) >= 1
        /\ \A q \in Reqs \ {r} : pc[q] \in {"waiting", "handler"}

\* The handler does not consult the store for the request: the store is
\* disabled or the request has no id.
Unchecked(r) ==
    /\ auth[r] \in {"ok", "skipped"}
    /\ ~cfg.dedupe_enabled \/ rid[r] = NoId

\* C24: a request that is answered without a request id, or while the
\* store is disabled, got no answer from check_and_mark (the handler's only
\* access to the store), is not answered as a duplicate, and has gone on to
\* render its receipt and to one transport write.
C24_StoreOnlyWithId ==
    \A r \in Reqs :
        (Unchecked(r) /\ pc[r] = "done")
            => /\ cam[r] = "none"
               /\ outcome[r] # RespDuplicate
               /\ built[r]
               /\ writes[r] = 1

\* The record of id is older than the TTL: cleanup_expired would delete it.
Expired(id) == id \in DOMAIN db /\ db[id] < Cutoff(now, TtlSeconds)

\* C21: in the running server a record that is older than the TTL is
\* eventually deleted (after which a request with its id is accepted as
\* new).
C21_RecordExpires ==
    \A id \in Ids : Expired(id) ~> (id \notin DOMAIN db)

=============================================================================
